---------------------------- MODULE Spec2Model ----------------------------
(***************************************************************************)
(* A model of summarize_journal.py: the two entry parsers, the parser of   *)
(* the output document, the cleaning of a generated response, the output   *)
(* writer and the batch run of main().                                     *)
(*                                                                         *)
(* Text is modelled character by character: a Python str is a sequence of  *)
(* one-character strings, so that the regular expressions of the source    *)
(* are computed on what they really read.                                  *)
(***************************************************************************)
EXTENDS Integers, Sequences, FiniteSets, TLC

(***************************************************************************)
(* Bounds of the model.                                                    *)
(***************************************************************************)
\* the longest list of --input-entry-md paths of a run
MaxPaths == 2
\* the number of runs against the same output document
MaxRuns == 2
\* the number of lines of a generated outline document
MaxOrgLines == 4
\* the number of pieces of a generated response text
MaxPieces == 5
\* the number of pieces of a generated summary written to the output document
MaxSummaryPieces == 3

(***************************************************************************)
(* Python's None.                                                          *)
(***************************************************************************)
None == <<"None">>

(***************************************************************************)
(* Helpers on text.                                                        *)
(***************************************************************************)
Min(S) == CHOOSE x \in S : \A y \in S : x <= y

Max(S) == CHOOSE x \in S : \A y \in S : x >= y

\* s[a..b], empty when a > b
Slice(s, a, b) == IF a > b THEN << >> ELSE SubSeq(s, a, b)

\* the literal lit stands in s at position i
StartsWithAt(s, i, lit) ==
    /\ i >= 1
    /\ i + Len(lit) - 1 <= Len(s)
    /\ \A k \in 1..Len(lit) : s[i + k - 1] = lit[k]

\* the first position >= from where lit stands in s; 0 when there is none
Find(s, lit, from) ==
    LET hits == {i \in from..(Len(s) - Len(lit) + 1) : StartsWithAt(s, i, lit)}
    IN  IF hits = {} THEN 0 ELSE Min(hits)

\* the last position where the character c stands in s; 0 when there is none
RFind(s, c) ==
    LET hits == {i \in 1..Len(s) : s[i] = c}
    IN  IF hits = {} THEN 0 ELSE Max(hits)

\* the characters str.strip() removes, of those the model writes
Whitespace == {" ", "\n"}

\* str.strip()
Strip(s) ==
    LET keep == {i \in 1..Len(s) : s[i] \notin Whitespace}
    IN  IF keep = {} THEN << >> ELSE SubSeq(s, Min(keep), Max(keep))

\* str.lower(), on the letters the model writes
Lower(s) == [i \in 1..Len(s) |-> IF s[i] = "Y" THEN "y" ELSE s[i]]

\* the concatenation of a sequence of texts
RECURSIVE Concat(_)
Concat(ss) == IF ss = << >> THEN << >> ELSE Head(ss) \o Concat(Tail(ss))

\* Python's truth value of a str, a list or None
Truthy(v) == v /= None /\ v /= << >>

(***************************************************************************)
(* os.path.basename and os.path.splitext (posixpath).                      *)
(***************************************************************************)
basename(p) == Slice(p, RFind(p, "/") + 1, Len(p))

\* splitext(p)[0] of a name without "/": the extension starts at the last
\* dot, unless only dots stand before it
splitext_root(name) ==
    LET dot == RFind(name, ".")
    IN  IF dot = 0 \/ (\A k \in 1..dot : name[k] = ".")
        THEN name
        ELSE Slice(name, 1, dot - 1)


(***************************************************************************)
(* The state of the program and of what it works on.                       *)
(***************************************************************************)
VARIABLES
    pc,               \* where main() stands: a state of the Batch Runner
    args,             \* the parsed command line
    files,            \* the input files: path -> text, or None when unreadable
    output_md,        \* the text of the output document, None when absent
    start_md,         \* output_md when this run started
    entries,          \* main()'s list of JournalEntry
    i,                \* the index (from 1) of the next entry of the loop
    processed_count,  \* main()'s counter
    summary,          \* what summarize_with_ollama returned last
    log,              \* what this run did, in order
    run,              \* the number of this run
    prev              \* what the run before this one ended with

vars == <<pc, args, files, output_md, start_md, entries, i, processed_count,
          summary, log, run, prev>>

(***************************************************************************)
(* JournalEntry and the block regular expressions of the two parsers:      *)
(*   ^MARKER(.*?)HEADCLOSE(.*?)(?=BLOCKEND|\Z)   with DOTALL and MULTILINE  *)
(* where BLOCKEND is "\n" and a marker prefix at the start of a line.      *)
(***************************************************************************)
JournalEntry(heading, filename, content) ==
    [heading |-> heading, filename |-> filename, content |-> content]

\* "** Journal Entry <"
OrgMarker ==
    <<"*", "*", " ", "J", "o", "u", "r", "n", "a", "l", " ",
      "E", "n", "t", "r", "y", " ", "<">>

\* ">\n"
OrgHeadClose == <<">", "\n">>

\* "\n** ": the lookahead \n^\*\*<space>
OrgBlockEnd == <<"\n", "*", "*", " ">>

\* "# "
SummaryMarker == <<"#", " ">>

\* "\n"
SummaryHeadClose == <<"\n">>

\* "\n# ": the lookahead \n^#<space>
SummaryBlockEnd == <<"\n", "#", " ">>

\* ^ under re.MULTILINE: the start of the text or just after a newline
AtLineStart(content, k) == k = 1 \/ content[k - 1] = "\n"

\* pattern.finditer(content) from position pos: the groups (1, 2) of the
\* matches, in order. Both groups are lazy and "." matches a newline, so
\* group 1 ends at the first HEADCLOSE and group 2 at the first BLOCKEND
\* (or at the end of the text); the next match is searched where this one
\* ended.
RECURSIVE finditer(_, _, _, _, _)
finditer(content, pos, marker, headClose, blockEnd) ==
    LET starts == {k \in pos..Len(content) :
                      AtLineStart(content, k) /\ StartsWithAt(content, k, marker)}
    IN  IF starts = {} THEN << >> ELSE
        LET s == Min(starts)
            h == Find(content, headClose, s + Len(marker))
        IN  IF h = 0 THEN << >> ELSE
            LET b  == h + Len(headClose)
                e0 == Find(content, blockEnd, b)
                e  == IF e0 = 0 THEN Len(content) + 1 ELSE e0
            IN  << <<Slice(content, s + Len(marker), h - 1),
                     Slice(content, b, e - 1)>> >>
                \o finditer(content, e, marker, headClose, blockEnd)

\* open(path).read(): the text, or None when the file is missing or
\* unreadable
ReadFile(path) == IF path \in DOMAIN files THEN files[path] ELSE None

\* the loop of parse_org_journal over the matches
RECURSIVE OrgEntries(_)
OrgEntries(matches) ==
    IF matches = << >> THEN << >> ELSE
    LET date_str      == Strip(Head(matches)[1])
        entry_content == Strip(Head(matches)[2])
    IN  (IF entry_content /= << >>
         THEN <<JournalEntry(date_str, None, entry_content)>>
         ELSE << >>)
        \o OrgEntries(Tail(matches))

parse_org_journal(file_path) ==
    LET content == ReadFile(file_path)
    IN  IF content = None THEN << >>
        ELSE OrgEntries(finditer(content, 1, OrgMarker, OrgHeadClose, OrgBlockEnd))

\* re.search(r'\[\[(.*?)\]\]', heading) and group(1).strip(); None when
\* there is no match
HeadingFilename(heading) ==
    LET o == Find(heading, <<"[", "[">>, 1)
        c == IF o = 0 THEN 0 ELSE Find(heading, <<"]", "]">>, o + 2)
    IN  IF c = 0 THEN None ELSE Strip(Slice(heading, o + 2, c - 1))

\* the loop of parse_journal_summary_file over the matches
RECURSIVE SummaryEntries(_)
SummaryEntries(matches) ==
    IF matches = << >> THEN << >> ELSE
    LET heading       == Strip(Head(matches)[1])
        entry_content == Strip(Head(matches)[2])
    IN  (IF entry_content /= << >>
         THEN <<JournalEntry(heading, HeadingFilename(heading), entry_content)>>
         ELSE << >>)
        \o SummaryEntries(Tail(matches))

\* parse_journal_summary_file, of the text of the output document (None
\* when it is absent or unreadable)
parse_journal_summary_file(content) ==
    IF content = None THEN << >>
    ELSE SummaryEntries(finditer(content, 1, SummaryMarker, SummaryHeadClose,
                                 SummaryBlockEnd))

\* {entry['filename'] + '.md' for entry in existing_summaries if entry['filename']}
files_already_summarized(existing_summaries) ==
    {existing_summaries[k].filename \o <<".", "m", "d">> :
        k \in {n \in 1..Len(existing_summaries) :
                  Truthy(existing_summaries[n].filename)}}

(***************************************************************************)
(* summarize_with_ollama: the cleaning of the generated text.              *)
(***************************************************************************)
ThinkOpen == <<"<", "t", "h", "i", "n", "k", ">">>

ThinkClose == <<"<", "/", "t", "h", "i", "n", "k", ">">>

\* re.sub(r'<think>.*?</think>', '', s, flags=re.DOTALL) from position pos:
\* one pass from the left over the non-overlapping matches
RECURSIVE re_sub_think(_, _)
re_sub_think(s, pos) ==
    LET o == Find(s, ThinkOpen, pos)
        c == IF o = 0 THEN 0 ELSE Find(s, ThinkClose, o + Len(ThinkOpen))
    IN  IF c = 0 THEN Slice(s, pos, Len(s))
        ELSE Slice(s, pos, o - 1) \o re_sub_think(s, c + Len(ThinkClose))

\* a plausible slip: the .strip() after re.sub left out
clean_response_unstripped(response) == re_sub_think(Strip(response), 1)

\* lines 152-155: what is returned for the "response" field of the reply
clean_response(response) == Strip(re_sub_think(Strip(response), 1))

(***************************************************************************)
(* append_summary_to_markdown and the pieces of main().                    *)
(***************************************************************************)
\* str(v) inside an f-string
Str(v) == IF v = None THEN <<"N", "o", "n", "e">> ELSE v

\* f"# {heading}\n\n" then f"{summary}\n\n"
record_text(heading, text) ==
    <<"#", " ">> \o Str(heading) \o <<"\n", "\n">> \o text \o <<"\n", "\n">>

\* the text of the document, the empty text when it is absent
TextOf(doc) == IF doc = None THEN << >> ELSE doc

\* a plausible slip: the document opened with 'w', which truncates it
append_summary_truncating(doc, heading, text, written) ==
    IF written THEN record_text(heading, text) ELSE doc

\* open(output_file, 'a') and the two writes: the record goes after what the
\* document holds (the document is created when absent). When the open or
\* the write raises, the exception is caught and the document is as before.
append_summary_to_markdown(doc, heading, text, written) ==
    IF written THEN TextOf(doc) \o record_text(heading, text) ELSE doc

\* a plausible slip: the check of the input modes left out
both_inputs_unchecked(a) == FALSE

\* line 256: both input modes given
both_inputs(a) == Truthy(a.input_journal_org) /\ Truthy(a.input_entry_md)

\* line 269: the paths whose base name is not in the completion set
files_to_summarize(paths, already) ==
    SelectSeq(paths, LAMBDA md_file_path : basename(md_file_path) \notin already)

\* a plausible slip: the entry of a file is given its path as heading
RECURSIVE read_entries_with_heading(_)
read_entries_with_heading(paths) ==
    IF paths = << >> THEN << >> ELSE
    LET md_file_path == Head(paths)
        content      == ReadFile(md_file_path)
    IN  (IF content = None THEN << >>
         ELSE <<JournalEntry(md_file_path, splitext_root(basename(md_file_path)),
                             content)>>)
        \o read_entries_with_heading(Tail(paths))

\* a plausible slip: "break" for "continue" in the handlers of lines 284-289,
\* so that the first unreadable file ends the reading
RECURSIVE read_entries_stopping(_)
read_entries_stopping(paths) ==
    IF paths = << >> THEN << >> ELSE
    LET md_file_path == Head(paths)
        content      == ReadFile(md_file_path)
    IN  IF content = None THEN << >>
        ELSE <<JournalEntry(None, splitext_root(basename(md_file_path)), content)>>
             \o read_entries_stopping(Tail(paths))

\* lines 272-289: one entry per readable file, in order
RECURSIVE read_entries(_)
read_entries(paths) ==
    IF paths = << >> THEN << >> ELSE
    LET md_file_path == Head(paths)
        content      == ReadFile(md_file_path)
    IN  (IF content = None THEN << >>
         ELSE <<JournalEntry(None, splitext_root(basename(md_file_path)), content)>>)
        \o read_entries(Tail(paths))

\* what lines 272-289 open, in order
read_events(paths) == [k \in 1..Len(paths) |-> <<"read_input", paths[k]>>]

\* a plausible slip: the skipping of line 269 extended to outline mode, by
\* the headings the output document holds
collect_entries_filtering_outline(a, existing_summaries) ==
    IF Truthy(a.input_entry_md)
    THEN read_entries(files_to_summarize(a.input_entry_md,
                                         files_already_summarized(existing_summaries)))
    ELSE IF Truthy(a.input_journal_org)
    THEN SelectSeq(parse_org_journal(a.input_journal_org),
                   LAMBDA e : \A k \in 1..Len(existing_summaries) :
                                 existing_summaries[k].heading /= e.heading)
    ELSE << >>

\* lines 262-292: the batch, of the command line and the entries parsed from
\* the output document
collect_entries(a, existing_summaries) ==
    IF Truthy(a.input_entry_md)
    THEN read_entries(files_to_summarize(a.input_entry_md,
                                         files_already_summarized(existing_summaries)))
    ELSE IF Truthy(a.input_journal_org)
    THEN parse_org_journal(a.input_journal_org)
    ELSE << >>

\* line 324
heading_of(entry) ==
    IF Truthy(entry.filename)
    THEN <<"[", "[">> \o entry.filename \o <<"]", "]">>
    ELSE entry.heading

\* lines 313-314: input(...).strip().lower() is 'y'
affirmative(answer) == Lower(Strip(answer)) = <<"y">>

\* a plausible slip: the exception handler falls through to return True
test_ollama_connection_always(reachable) == TRUE

\* test_ollama_connection: True when the GET raised nothing
test_ollama_connection(reachable) == reachable

\* a plausible slip: the report prints the batch total twice
report_total(count, total) == << <<"report", total, total>> >>

\* lines 341-342: the final report
report(count, total) == << <<"report", count, total>> >>

(***************************************************************************)
(* The inputs of the runs.                                                 *)
(***************************************************************************)
\* "a.md", "d/a.md", "b.txt", "e.md", "m.md"
PathA == <<"a", ".", "m", "d">>

PathDA == <<"d", "/", "a", ".", "m", "d">>

PathB == <<"b", ".", "t", "x", "t">>

PathE == <<"e", ".", "m", "d">>

PathM == <<"m", ".", "m", "d">>

\* "j.org", "k.org", "n.org"
PathJ == <<"j", ".", "o", "r", "g">>

PathK == <<"k", ".", "o", "r", "g">>

PathN == <<"n", ".", "o", "r", "g">>

\* the lines of a text, joined by newlines
RECURSIVE Join(_)
Join(lines) ==
    IF lines = << >> THEN << >>
    ELSE IF Len(lines) = 1 THEN Head(lines)
    ELSE Head(lines) \o <<"\n">> \o Join(Tail(lines))

\* "** Journal Entry <d>"
MarkerLine(d) == OrgMarker \o d \o <<">">>

\* three blocks dated A, B, C with the bodies x, y, z
OrgDocABC ==
    Join(<<MarkerLine(<<"A">>), <<"x">>, MarkerLine(<<"B">>), <<"y">>,
           MarkerLine(<<"C">>), <<"z">>, << >> >>)

\* a block with a blank body, then a block with a body
OrgDocBlank ==
    Join(<<MarkerLine(<<"A">>), << >>, MarkerLine(<<"B">>), <<"y">>, << >> >>)

\* the files of the runs: PathE is an empty file; PathM and PathN are missing
RunFiles ==
    (PathA :> <<"x">>) @@ (PathDA :> <<"y">>) @@ (PathB :> <<"z">>)
    @@ (PathE :> << >>) @@ (PathJ :> OrgDocABC) @@ (PathK :> OrgDocBlank)

EntryPaths == {PathA, PathDA, PathB, PathE, PathM}

\* the non-empty lists, of at most n elements, of elements of S
ListsUpTo(S, n) == UNION {[1..k -> S] : k \in 1..n}

\* the lists, of at most n elements, of elements of S
ListsUpTo0(S, n) == UNION {[1..k -> S] : k \in 0..n}

\* argparse: -j takes one value, -e one or more (nargs='+'); each is None
\* when the option is not given
ArgSets(journals, lists) ==
    [input_journal_org : journals, input_entry_md : lists]

\* the command lines of the runs: per-file mode, outline mode (-j '' gives
\* the empty path), neither, and both
RunArgs ==
    ArgSets({None}, {None} \cup ListsUpTo(EntryPaths, MaxPaths))
    \cup ArgSets({<< >>, PathJ, PathK, PathN}, {None})
    \cup ArgSets({<< >>, PathJ}, ListsUpTo(EntryPaths, 1))

\* the output document before the first run: absent, one record written by
\* an earlier run for a.md, or a text that does not end with a newline
RunOutputs == {None, record_text(<<"[", "[", "a", "]", "]">>, <<"s">>), <<"t">>}

\* what the operator types at the confirmation
Answers == {<<"y">>, <<" ", "Y">>, <<"n">>, <<"y", "e", "s">>}

\* the reply of the service to a generation request: None for a failed
\* request (no connection, timeout, HTTP error, malformed JSON), else the
\* text of the "response" field ('' when the field is missing)
RunReplies ==
    {None, <<"s">>, ThinkOpen \o <<"i">> \o ThinkClose \o <<"s">>,
     ThinkOpen \o <<"i">> \o ThinkClose}

(***************************************************************************)
(* main(): one run.                                                        *)
(***************************************************************************)
StartOfRun(a, fs, doc) ==
    /\ pc = "collecting"
    /\ args = a
    /\ files = fs
    /\ output_md = doc
    /\ start_md = doc
    /\ entries = << >>
    /\ i = 0
    /\ processed_count = 0
    /\ summary = None
    /\ log = << >>
    /\ run = 1
    /\ prev = None

\* lines 255-296: the check of the input modes, the completion set, the
\* batch
Collect ==
    /\ pc = "collecting"
    /\ IF both_inputs(args)
       THEN /\ pc' = "aborted"
            /\ log' = log \o << <<"config_error">> >>
            /\ UNCHANGED entries
       ELSE LET existing_summaries == parse_journal_summary_file(output_md)
                already == files_already_summarized(existing_summaries)
                todo == IF Truthy(args.input_entry_md)
                        THEN files_to_summarize(args.input_entry_md, already)
                        ELSE << >>
                found == collect_entries(args, existing_summaries)
                reads == IF Truthy(args.input_entry_md)
                         THEN read_events(todo)
                         ELSE IF Truthy(args.input_journal_org)
                         THEN << <<"read_journal", args.input_journal_org>> >>
                         ELSE << >>
            IN  /\ entries' = found
                /\ log' = log \o << <<"read_output">> >> \o reads
                /\ pc' = IF found = << >> THEN "done" ELSE "confirming"
    /\ UNCHANGED <<args, files, output_md, start_md, i, processed_count,
                   summary, run, prev>>

\* lines 298-316: the list is shown and the operator asked
Confirm ==
    /\ pc = "confirming"
    /\ \E answer \in Answers :
          /\ log' = log \o << <<"confirm", answer>> >>
          /\ pc' = IF affirmative(answer) THEN "checking-service" ELSE "aborted"
    /\ UNCHANGED <<args, files, output_md, start_md, entries, i,
                   processed_count, summary, run, prev>>

\* lines 318-322 and test_ollama_connection: the GET either succeeds or
\* raises a RequestException
CheckService ==
    /\ pc = "checking-service"
    /\ \E reachable \in BOOLEAN :
          /\ log' = log \o << <<"probe", reachable>> >>
          /\ IF test_ollama_connection(reachable)
             THEN pc' = "processing" /\ i' = 1 /\ processed_count' = 0
             ELSE pc' = "aborted" /\ UNCHANGED <<i, processed_count>>
    /\ UNCHANGED <<args, files, output_md, start_md, entries, summary, run, prev>>

\* what the loop does after an entry that did not end the run: the next
\* entry, or the final report of lines 341-342
AfterEntry(events, count) ==
    IF i = Len(entries)
    THEN /\ pc' = "done"
         /\ log' = log \o events \o report(count, Len(entries))
         /\ i' = i + 1
    ELSE /\ pc' = "processing"
         /\ log' = log \o events
         /\ i' = i + 1

\* lines 323-339: one iteration of the loop, with the replies of the service
\* drawn from Replies
ProcessEntry(Replies) ==
    /\ pc = "processing"
    /\ i <= Len(entries)
    /\ LET entry == entries[i]
           heading == heading_of(entry)
       IN  IF ~Truthy(entry.content)
           THEN /\ AfterEntry(<< <<"skip", i>> >>, processed_count)
                /\ UNCHANGED <<output_md, processed_count, summary>>
           ELSE \E reply \in Replies :
                  LET s == IF reply = None THEN None ELSE clean_response(reply)
                  IN  /\ summary' = s
                      /\ IF Truthy(s)
                         THEN \E written \in BOOLEAN :
                                /\ output_md' = append_summary_to_markdown(
                                                    output_md, heading, s, written)
                                /\ processed_count' = processed_count + 1
                                /\ AfterEntry(
                                     << <<"generate", i>>, <<"summary", i>>,
                                        <<IF written THEN "append" ELSE "write_error", i>> >>,
                                     processed_count + 1)
                         ELSE /\ pc' = "aborted"
                              /\ log' = log \o << <<"generate", i>>, <<"no_summary", i>> >>
                              /\ UNCHANGED <<output_md, processed_count, i>>
    /\ UNCHANGED <<args, files, start_md, entries, run, prev>>

\* the indexes of the entries whose record a run appended, in order
Appended(events) ==
    LET hits == SelectSeq(events, LAMBDA e : e[1] = "append")
    IN  [k \in 1..Len(hits) |-> hits[k][2]]

\* the index of the entry whose summarization failed and ended a run; 0 when
\* there is none
Failed(events) ==
    LET hits == SelectSeq(events, LAMBDA e : e[1] = "no_summary")
    IN  IF hits = << >> THEN 0 ELSE hits[1][2]

\* the program is run again, with the same command line, on what the run
\* before left
Restart ==
    /\ pc \in {"done", "aborted"}
    /\ run < MaxRuns
    /\ prev' = [pc |-> pc, entries |-> entries, processed_count |-> processed_count,
                appended |-> Appended(log), failed |-> Failed(log),
                start_md |-> start_md]
    /\ pc' = "collecting"
    /\ start_md' = output_md
    /\ entries' = << >>
    /\ i' = 0
    /\ processed_count' = 0
    /\ summary' = None
    /\ log' = << >>
    /\ run' = run + 1
    /\ UNCHANGED <<args, files, output_md>>

Init == \E a \in RunArgs : \E doc \in RunOutputs : StartOfRun(a, RunFiles, doc)

Next ==
    \/ Collect
    \/ Confirm
    \/ CheckService
    \/ ProcessEntry(RunReplies)
    \/ Restart

Spec == Init /\ [][Next]_vars

(***************************************************************************)
(* The outline parser alone: main() in outline mode up to the batch, on    *)
(* generated outline documents.                                            *)
(***************************************************************************)
\* the lines the outline documents are made of: two marker lines, a blank
\* line, a line of whitespace, a line of text, a heading that is no marker,
\* a line that holds the marker text after other text, and a marker line
\* that lacks its closing ">"
OrgLineKinds ==
    {MarkerLine(<<"A">>), MarkerLine(<<"B">>), << >>, <<" ">>, <<"x">>,
     <<"*", "*", " ", "o">>, <<"x", " ">> \o MarkerLine(<<"C">>),
     OrgMarker \o <<"D">>}

OrgDocs == {Join(ls) : ls \in ListsUpTo0(OrgLineKinds, MaxOrgLines)}

InitOrg ==
    \E doc \in OrgDocs :
        StartOfRun([input_journal_org |-> PathJ, input_entry_md |-> None],
                   (PathJ :> doc), None)

SpecOrg == InitOrg /\ [][Collect]_vars

(***************************************************************************)
(* The cleaning of the response alone: a run over one file, with generated *)
(* response texts.                                                         *)
(***************************************************************************)
\* the pieces the response texts are made of: the tags, the two halves of
\* an open tag, text and whitespace
ReplyPieces ==
    {ThinkOpen, ThinkClose, <<"<", "t", "h", "i">>, <<"n", "k", ">">>,
     <<"x">>, <<" ">>}

CleanReplies == {Concat(ps) : ps \in ListsUpTo0(ReplyPieces, MaxPieces)}

InitClean ==
    StartOfRun([input_journal_org |-> None, input_entry_md |-> <<PathA>>],
               RunFiles, None)

NextClean ==
    \/ Collect
    \/ Confirm
    \/ CheckService
    \/ ProcessEntry(CleanReplies)

SpecClean == InitClean /\ [][NextClean]_vars

(***************************************************************************)
(* The writer and the parser of the output document together: a run over   *)
(* one file, with generated identifiers, summaries and output documents.   *)
(***************************************************************************)
\* "n1.md", "n].md", " n.md", "[n.md"
RoundTripPaths ==
    {<<"n", "1", ".", "m", "d">>, <<"n", "]", ".", "m", "d">>,
     <<" ", "n", ".", "m", "d">>, <<"[", "n", ".", "m", "d">>}

RoundTripFiles == [p \in RoundTripPaths |-> <<"x">>]

\* the output document before the run: absent, empty, a record, a text that
\* ends without a newline, a heading without a body
RoundTripOutputs ==
    {None, << >>, record_text(<<"[", "[", "a", "]", "]">>, <<"s">>), <<"t">>,
     <<"#", " ", "h", "\n">>}

\* the pieces the summaries are made of
SummaryPieces == {<<"s">>, <<"#", " ">>, <<"\n">>}

RoundTripReplies == {Concat(ps) : ps \in ListsUpTo0(SummaryPieces, MaxSummaryPieces)}

InitRoundTrip ==
    \E p \in RoundTripPaths : \E doc \in RoundTripOutputs :
        StartOfRun([input_journal_org |-> None, input_entry_md |-> <<p>>],
                   RoundTripFiles, doc)

NextRoundTrip ==
    \/ Collect
    \/ Confirm
    \/ CheckService
    \/ ProcessEntry(RoundTripReplies)

SpecRoundTrip == InitRoundTrip /\ [][NextRoundTrip]_vars

(***************************************************************************)
(* What the claims speak of.                                               *)
(***************************************************************************)
IsPrefix(a, b) == Len(a) <= Len(b) /\ SubSeq(b, 1, Len(a)) = a

\* the positions of the log that hold an event of the kind tag
EventsOf(tag) == {k \in 1..Len(log) : log[k][1] = tag}

\* the indexes of the entries for which the log holds an event of the kind tag
EntriesWith(tag) == {log[k][2] : k \in EventsOf(tag)}

\* this run is in per-file mode
PerFileMode == Truthy(args.input_entry_md) /\ ~Truthy(args.input_journal_org)

\* the answers of the operator that affirm
Affirmations == {<<"y">>, <<" ", "Y">>}

\* the records of the entries of ks, a set of indexes, in batch order
RECURSIVE RecordsOf(_, _, _)
RecordsOf(es, ks, text) ==
    IF es = << >> THEN << >>
    ELSE RecordsOf(SubSeq(es, 1, Len(es) - 1), ks, text)
         \o (IF Len(es) \in ks THEN record_text(heading_of(es[Len(es)]), text)
             ELSE << >>)

(***************************************************************************)
(* C1. Idempotence of the per-file batch: after a per-file run that ended  *)
(* in done having summarized every entry of its batch, the next run with   *)
(* the same input paths on the same output document has an empty batch,    *)
(* issues no generation request and appends no record. It is stated here   *)
(* of the first runs that started without an output document and wrote the *)
(* record of every entry, in order.                                        *)
(***************************************************************************)
C1_SecondRunProcessesNothing ==
    (/\ run > 1
     /\ PerFileMode
     /\ prev.pc = "done"
     /\ prev.start_md = None
     /\ prev.processed_count = Len(prev.entries)
     /\ prev.appended = [k \in 1..Len(prev.entries) |-> k]
     /\ pc /= "collecting")
    => (/\ entries = << >>
        /\ EventsOf("generate") = {}
        /\ EventsOf("append") = {}
        /\ output_md = start_md)

(***************************************************************************)
(* C2. Abort on first failure: when the summarization of the entry at      *)
(* position k fails, the run is aborted, no generation request is issued   *)
(* for an entry after k, nothing is appended after the failure, and the    *)
(* records the run appended are exactly those of the entries before k      *)
(* whose summarization succeeded.                                          *)
(***************************************************************************)
C2_AbortOnFirstFailure ==
    \A k \in EntriesWith("no_summary") :
        /\ pc = "aborted"
        /\ \A j \in EntriesWith("generate") : j <= k
        /\ log[Len(log)] = <<"no_summary", k>>
        /\ TextOf(output_md)
             = TextOf(start_md)
               \o RecordsOf(entries, {j \in EntriesWith("summary") : j < k}, <<"s">>)

(***************************************************************************)
(* C3. Append-only output: in every state of every run the output document *)
(* starts with the text it had when the run started, and a document that   *)
(* existed still exists.                                                   *)
(***************************************************************************)
C3_AppendOnly ==
    /\ IsPrefix(TextOf(start_md), TextOf(output_md))
    /\ start_md /= None => output_md /= None

\* a run on a document that held text appended a record, then failed to
\* write another, then was aborted by a failed summarization
C3_Witness ==
    /\ start_md /= None
    /\ pc = "aborted"
    /\ EventsOf("append") /= {}
    /\ EventsOf("write_error") /= {}
    /\ EventsOf("no_summary") /= {}
    /\ Len(TextOf(output_md)) > Len(TextOf(start_md))

(***************************************************************************)
(* C5. Mutual exclusivity: a run given both an outline path and per-file   *)
(* paths ends with the configuration error and nothing else: it reads      *)
(* neither the output document nor an input file, asks no confirmation,    *)
(* sends nothing to the service and leaves the output document as it was.  *)
(***************************************************************************)
C5_MutualExclusivity ==
    (/\ Truthy(args.input_journal_org)
     /\ Truthy(args.input_entry_md)
     /\ pc /= "collecting")
    => (/\ pc = "aborted"
        /\ log = << <<"config_error">> >>
        /\ entries = << >>
        /\ output_md = start_md)

\* a run given both -j and -e has ended
C5_Witness ==
    /\ Truthy(args.input_journal_org)
    /\ Truthy(args.input_entry_md)
    /\ pc = "aborted"
    /\ log = << <<"config_error">> >>

(***************************************************************************)
(* C6. Gating of side effects: a generation request or an append comes     *)
(* only after an affirming answer and, after that, a successful probe; an  *)
(* answer that does not affirm, or a failed probe, aborts the run with the *)
(* output document unchanged and no generation request issued.            *)
(***************************************************************************)
C6_Gating ==
    /\ \A k \in EventsOf("generate") \cup EventsOf("append") :
          \E c \in EventsOf("confirm") : \E p \in EventsOf("probe") :
             /\ c < p /\ p < k
             /\ log[c][2] \in Affirmations
             /\ log[p][2] = TRUE
    /\ (\/ \E c \in EventsOf("confirm") : log[c][2] \notin Affirmations
        \/ \E p \in EventsOf("probe") : log[p][2] = FALSE)
       => (/\ pc = "aborted"
           /\ output_md = start_md
           /\ EventsOf("generate") = {}
           /\ EventsOf("append") = {})

\* a run that was affirmed with " Y", probed the service and appended
C6_Witness ==
    /\ \E c \in EventsOf("confirm") : log[c][2] = <<" ", "Y">>
    /\ \E p \in EventsOf("probe") : log[p][2] = TRUE
    /\ EventsOf("append") /= {}

(***************************************************************************)
(* C10. Terminal report, as claimed: in done and in aborted the run has    *)
(* reported the processed count out of the batch total.                    *)
(***************************************************************************)
C10_ReportInBothTerminalStates ==
    pc \in {"done", "aborted"}
    => log /= << >> /\ log[Len(log)] = <<"report", processed_count, Len(entries)>>

(***************************************************************************)
(* C10, amended. Only a run whose loop reaches the end of the batch        *)
(* reports: it ends in done with the report of the processed count out of  *)
(* the batch total as the last thing it does. A run that ends with an      *)
(* empty batch or is aborted reports no count; when the summarization of   *)
(* entry k fails, the counter holds the number of entries before k that    *)
(* were summarized (1 for [X, Y, Z] with Y failing).                       *)
(***************************************************************************)
C10_ReportOnlyAtLoopEnd ==
    /\ (pc = "done" /\ entries /= << >>)
       => log[Len(log)] = <<"report", processed_count, Len(entries)>>
    /\ (pc /= "done" \/ entries = << >>) => EventsOf("report") = {}
    /\ \A k \in EntriesWith("no_summary") :
          processed_count = Cardinality({j \in EntriesWith("summary") : j < k})
    /\ processed_count = Cardinality(EntriesWith("summary"))

\* [X, Y, Z] with Y failing: the run is aborted with the counter at 1
C10_Witness ==
    /\ Len(entries) = 3
    /\ pc = "aborted"
    /\ log[Len(log)] = <<"no_summary", 2>>
    /\ processed_count = 1

(***************************************************************************)
(* The outline format as section 6 of the specification gives it: a block  *)
(* starts at a line "** Journal Entry <DATE>" and its body is every line   *)
(* up to the next such line or the end of the document.                    *)
(***************************************************************************)
\* the lines of a text
RECURSIVE Lines(_)
Lines(text) ==
    LET n == Find(text, <<"\n">>, 1)
    IN  IF n = 0 THEN <<text>>
        ELSE <<Slice(text, 1, n - 1)>> \o Lines(Slice(text, n + 1, Len(text)))

IsMarkerLine(l) ==
    /\ StartsWithAt(l, 1, OrgMarker)
    /\ Len(l) > Len(OrgMarker)
    /\ l[Len(l)] = ">"

MarkerDate(l) == Strip(Slice(l, Len(OrgMarker) + 1, Len(l) - 1))

\* the positions of the marker lines of ls
Markers(ls) == {m \in 1..Len(ls) : IsMarkerLine(ls[m])}

\* the body of the block that starts at line m is blank
BlankBody(ls, m) ==
    LET later == {n \in Markers(ls) : n > m}
        last  == IF later = {} THEN Len(ls) ELSE Min(later) - 1
    IN  \A n \in (m + 1)..last : Strip(ls[n]) = << >>

\* the dates of the marker lines of ls that stand in ms, in document order
RECURSIVE DatesOf(_, _)
DatesOf(ls, ms) ==
    IF ls = << >> THEN << >>
    ELSE DatesOf(SubSeq(ls, 1, Len(ls) - 1), ms)
         \o (IF Len(ls) \in ms THEN <<MarkerDate(ls[Len(ls)])>> ELSE << >>)

\* a is b with some elements left out
RECURSIVE IsSubseq(_, _)
IsSubseq(a, b) ==
    IF a = << >> THEN TRUE
    ELSE IF b = << >> THEN FALSE
    ELSE IF Head(a) = Head(b) THEN IsSubseq(Tail(a), Tail(b))
    ELSE IsSubseq(a, Tail(b))

\* the outline document of this run and the headings of its batch
OrgLines == Lines(files[args.input_journal_org])

Headings == [k \in 1..Len(entries) |-> entries[k].heading]

\* every line that starts with the marker text is a whole marker line
WholeMarkers(ls) ==
    \A n \in 1..Len(ls) : StartsWithAt(ls[n], 1, OrgMarker) => IsMarkerLine(ls[n])

(***************************************************************************)
(* C7. Order preservation of the outline parser: the entries stand in the  *)
(* order of their marker lines, at most one per marker line: the headings  *)
(* of the entries are dates of marker lines of the document, in document   *)
(* order, each marker line used at most once.                              *)
(***************************************************************************)
C7_OrderPreservation ==
    pc /= "collecting"
    => LET ls == OrgLines
       IN  IsSubseq(Headings, DatesOf(ls, Markers(ls)))

(***************************************************************************)
(* C8. Empty-body filtering: a block whose body is empty or only           *)
(* whitespace yields no entry: the headings of the entries are dates of    *)
(* the blocks whose body is not blank, in order. It is stated here of the  *)
(* documents in which every line that starts with the marker text is a     *)
(* whole marker line.                                                      *)
(***************************************************************************)
C8_EmptyBodyFiltering ==
    (pc /= "collecting" /\ WholeMarkers(OrgLines))
    => LET ls == OrgLines
       IN  IsSubseq(Headings, DatesOf(ls, {m \in Markers(ls) : ~BlankBody(ls, m)}))

(***************************************************************************)
(* C9. Tag stripping: the summary the Summarization Client returns holds   *)
(* no reasoning span, an open tag followed later by a close tag.           *)
(***************************************************************************)
HasSpan(s) ==
    \E o \in 1..Len(s) :
        /\ StartsWithAt(s, o, ThinkOpen)
        /\ \E c \in (o + Len(ThinkOpen))..Len(s) : StartsWithAt(s, c, ThinkClose)

C9_NoReasoningSpan == summary /= None => ~HasSpan(summary)

(***************************************************************************)
(* C4. Round-trip identifier extraction: once the record of an entry with  *)
(* the identifier f is appended, parsing the output document gives a       *)
(* completion set that holds f + ".md". It is stated here of the           *)
(* identifier n1 and of the runs that started without an output document.  *)
(***************************************************************************)
C4_RoundTrip ==
    \A k \in EntriesWith("append") :
        (start_md = None /\ entries[k].filename = <<"n", "1">>)
        => <<"n", "1", ".", "m", "d">>
              \in files_already_summarized(parse_journal_summary_file(output_md))

(***************************************************************************)
(* C11. Write failure is an entry failure: when the record of an entry     *)
(* whose summarization succeeded cannot be written, the entry is not       *)
(* counted as processed, the run is aborted and no generation request is   *)
(* issued for a later entry.                                               *)
(***************************************************************************)
C11_WriteFailureIsEntryFailure ==
    \A k \in EntriesWith("write_error") :
        /\ pc = "aborted"
        /\ \A j \in EntriesWith("generate") : j <= k
        /\ processed_count = Cardinality({j \in EntriesWith("append") : j < k})

(***************************************************************************)
(* C12. Block extent of the outline parser: the content of every entry is  *)
(* the trimmed text of the lines between a marker line with the entry's    *)
(* date and the next marker line (or the end of the document); no other    *)
(* line ends a block. It is stated here of the documents in which every    *)
(* line that starts with the marker text is a whole marker line and no     *)
(* marker line is followed at once by a line that starts with "** ".       *)
(***************************************************************************)
\* the trimmed text of the lines between the marker line m and the next one
BodyOf(ls, m) ==
    LET later == {n \in Markers(ls) : n > m}
        last  == IF later = {} THEN Len(ls) ELSE Min(later) - 1
    IN  Strip(Join(SubSeq(ls, m + 1, last)))

\* no marker line is followed at once by a line that starts with "** "
NoHeadingAfterMarker(ls) ==
    \A m \in Markers(ls) :
        m < Len(ls) => ~StartsWithAt(ls[m + 1], 1, <<"*", "*", " ">>)

C12_BlockExtent ==
    (pc /= "collecting" /\ WholeMarkers(OrgLines) /\ NoHeadingAfterMarker(OrgLines))
    => LET ls == OrgLines
       IN  \A k \in 1..Len(entries) :
              \E m \in Markers(ls) :
                 /\ entries[k].heading = MarkerDate(ls[m])
                 /\ entries[k].content = BodyOf(ls, m)

(***************************************************************************)
(* Per-file mode as the specification gives it.                            *)
(***************************************************************************)
\* the completion set of a document
CompletionSet(doc) == files_already_summarized(parse_journal_summary_file(doc))

\* the file at the path p can be read
Readable(p) == p \in DOMAIN files

\* the entry of the file at the path p
EntryOf(p) == JournalEntry(None, splitext_root(basename(p)), files[p])

\* the entries of the paths that are readable and whose base name is not in
\* the set done, in the order of the paths
RECURSIVE BatchOf(_, _)
BatchOf(paths, done) ==
    IF paths = << >> THEN << >>
    ELSE BatchOf(SubSeq(paths, 1, Len(paths) - 1), done)
         \o (IF Readable(paths[Len(paths)]) /\ basename(paths[Len(paths)]) \notin done
             THEN <<EntryOf(paths[Len(paths)])>>
             ELSE << >>)

(***************************************************************************)
(* C13. Batch selection in per-file mode: the batch is the sequence, in    *)
(* argument order, of the paths that are readable and whose base name is   *)
(* not in the completion set of the output document as the run found it;   *)
(* an unreadable path does not end the run: every path outside the         *)
(* completion set is opened, and the run goes on to the confirmation when  *)
(* the batch is not empty.                                                 *)
(***************************************************************************)
C13_BatchSelection ==
    (PerFileMode /\ pc /= "collecting")
    => LET paths == args.input_entry_md
           done  == CompletionSet(start_md)
       IN  /\ entries = BatchOf(paths, done)
           /\ \A k \in 1..Len(paths) :
                 basename(paths[k]) \notin done
                 => \E n \in EventsOf("read_input") : log[n][2] = paths[k]
           /\ (entries /= << >> /\ EventsOf("confirm") = {}) => pc = "confirming"

\* a run whose first path is missing and whose second path is in the batch
C13_Witness ==
    /\ PerFileMode
    /\ Len(args.input_entry_md) = 2
    /\ ~Readable(args.input_entry_md[1])
    /\ Len(entries) = 1
    /\ pc = "confirming"

(***************************************************************************)
(* C14. Sequential in-order processing: the generation requests of a run   *)
(* are issued in batch order, at most one per entry; each is resolved (a   *)
(* summary or a failure) before anything else happens; the request for a   *)
(* later entry is issued only after the record of the entry before has     *)
(* been appended; and the records the run appended stand in the output     *)
(* document in batch order.                                                *)
(***************************************************************************)
C14_SequentialInOrder ==
    /\ \A a, b \in EventsOf("generate") : a < b => log[a][2] < log[b][2]
    /\ \A g \in EventsOf("generate") :
          /\ g < Len(log)
          /\ log[g + 1] \in {<<"summary", log[g][2]>>, <<"no_summary", log[g][2]>>}
    /\ \A a, b \in EventsOf("generate") :
          a < b => \E w \in (a + 1)..(b - 1) : log[w] = <<"append", log[a][2]>>
    /\ TextOf(output_md)
         = TextOf(start_md) \o RecordsOf(entries, EntriesWith("append"), <<"s">>)

(***************************************************************************)
(* C15. Entry identity invariant, as claimed: every JournalEntry a parser  *)
(* produces (the batch of the run, and the entries the output-format       *)
(* parser makes of the output document at the start of the run) has        *)
(* exactly one of heading and filename set.                                *)
(***************************************************************************)
\* the entries the Completion Tracker parsed at the start of this run
ExistingSummaries == parse_journal_summary_file(start_md)

ExactlyOneSet(e) == (e.heading /= None) /= (e.filename /= None)

C15_ExactlyOneIdentity ==
    pc /= "collecting"
    => /\ \A k \in 1..Len(entries) : ExactlyOneSet(entries[k])
       /\ LET existing == ExistingSummaries
          IN  \A k \in 1..Len(existing) : ExactlyOneSet(existing[k])

(***************************************************************************)
(* C15, amended. An entry of the outline-format parser has its heading set *)
(* and its filename unset; an entry of the per-file parser has its         *)
(* filename set and its heading unset; an entry of the output-format       *)
(* parser always has its heading set, and has its filename set as well     *)
(* exactly when the heading holds "[[" and a later "]]".                   *)
(***************************************************************************)
\* the heading holds "[[" and, after it, "]]"
HoldsIdentifier(heading) ==
    \E o \in 1..Len(heading) :
        /\ StartsWithAt(heading, o, <<"[", "[">>)
        /\ \E c \in (o + 2)..Len(heading) : StartsWithAt(heading, c, <<"]", "]">>)

C15_IdentityByParser ==
    pc /= "collecting"
    => /\ \A k \in 1..Len(entries) :
             IF Truthy(args.input_entry_md)
             THEN entries[k].filename /= None /\ entries[k].heading = None
             ELSE entries[k].heading /= None /\ entries[k].filename = None
       /\ LET existing == ExistingSummaries
          IN  \A k \in 1..Len(existing) :
                 /\ existing[k].heading /= None
                 /\ existing[k].filename /= None
                    <=> HoldsIdentifier(existing[k].heading)

\* a per-file run with a batch, whose output document held a record with
\* the heading "[[a]]"
C15_Witness ==
    /\ PerFileMode
    /\ entries /= << >>
    /\ LET existing == ExistingSummaries
       IN  \E k \in 1..Len(existing) :
              /\ existing[k].heading = <<"[", "[", "a", "]", "]">>
              /\ existing[k].filename = <<"a">>

(***************************************************************************)
(* C16. Outline mode is never filtered: the batch of an outline run does   *)
(* not depend on the output document, so the run after one has the same    *)
(* batch; when it runs to its end it has issued a generation request for   *)
(* every entry again, and when every record of both runs was written the   *)
(* output document holds the records of the batch twice.                   *)
(***************************************************************************)
OutlineMode == Truthy(args.input_journal_org) /\ ~Truthy(args.input_entry_md)

\* the indexes 1..n in order
Upto(n) == [k \in 1..n |-> k]

\* this run appended the record of every entry of its batch, in order
AppendedAll == Appended(log) = Upto(Len(entries))

C16_OutlineNeverFiltered ==
    (OutlineMode /\ run > 1 /\ pc /= "collecting")
    => /\ entries = prev.entries
       /\ pc = "done" => EntriesWith("generate") = 1..Len(entries)
       /\ (prev.pc = "done" /\ prev.appended = Upto(Len(entries))
           /\ pc = "done" /\ AppendedAll)
          => LET records == RecordsOf(entries, 1..Len(entries), <<"s">>)
             IN  TextOf(output_md) = TextOf(prev.start_md) \o records \o records

\* the second run over the outline with the blocks A, B, C has ended, and
\* both runs wrote three records
C16_Witness ==
    /\ OutlineMode
    /\ run = 2
    /\ pc = "done"
    /\ Len(entries) = 3
    /\ prev.pc = "done"
    /\ prev.appended = Upto(3)
    /\ AppendedAll

(***************************************************************************)
(* C17. Resumption after an abort: when a per-file run whose batch held    *)
(* every input path (all readable, none summarized before) was aborted by  *)
(* the failure of entry k after it appended the records of the entries     *)
(* before k, the next run with the same paths on the same document has as  *)
(* its batch the entries from k on, in order. It is stated here of the     *)
(* first runs that started without an output document, on paths with       *)
(* different base names.                                                   *)
(***************************************************************************)
\* no two of the input paths have the same base name
DistinctBaseNames ==
    \A a, b \in 1..Len(args.input_entry_md) :
        a /= b => basename(args.input_entry_md[a]) /= basename(args.input_entry_md[b])

C17_ResumptionAfterAbort ==
    (/\ run > 1
     /\ PerFileMode
     /\ DistinctBaseNames
     /\ prev.start_md = None
     /\ Len(prev.entries) = Len(args.input_entry_md)
     /\ prev.failed > 0
     /\ prev.appended = Upto(prev.failed - 1)
     /\ pc /= "collecting")
    => entries = SubSeq(prev.entries, prev.failed, Len(prev.entries))

(***************************************************************************)
(* C18. No silent skipping: a readable input file is left out of the batch *)
(* only if the output document holds a record that was appended for that   *)
(* same file. It is stated here of the second run after a first run that   *)
(* started without an output document and wrote the record of every entry  *)
(* it counted, so that every record of the document was appended by the    *)
(* first run, for the file of its entry.                                   *)
(***************************************************************************)
\* the elements of a sequence
RangeOf(s) == {s[k] : k \in 1..Len(s)}

\* the paths for whose files the run before appended a record: without an
\* output document its batch was the readable paths, in order
SummarizedBefore ==
    LET batch == SelectSeq(args.input_entry_md, Readable)
    IN  {batch[k] : k \in RangeOf(prev.appended)}

C18_NoSilentSkipping ==
    (/\ run > 1
     /\ PerFileMode
     /\ prev.start_md = None
     /\ prev.processed_count = Len(prev.appended)
     /\ pc /= "collecting")
    => \A k \in 1..Len(args.input_entry_md) :
          LET p == args.input_entry_md[k]
          IN  (Readable(p) /\ EntryOf(p) \notin RangeOf(entries))
              => p \in SummarizedBefore

(***************************************************************************)
(* C19. No duplicate records: after per-file runs that started from an     *)
(* absent output document, the document holds at most one record for the   *)
(* identifier of each input file.                                          *)
(***************************************************************************)
\* the number of heading lines "# [[f]]" in the text
RecordCount(text, f) ==
    LET line == <<"#", " ", "[", "[">> \o f \o <<"]", "]", "\n">>
    IN  Cardinality({k \in 1..Len(text) :
                        AtLineStart(text, k) /\ StartsWithAt(text, k, line)})

C19_NoDuplicateRecords ==
    (PerFileMode /\ (IF run = 1 THEN start_md ELSE prev.start_md) = None)
    => \A k \in 1..Len(args.input_entry_md) :
          RecordCount(TextOf(output_md),
                      splitext_root(basename(args.input_entry_md[k]))) <= 1

(***************************************************************************)
(* C20. Empty summary counts as failure: when the cleaned text of a        *)
(* well-formed response is empty, the run appends nothing for the entry    *)
(* and is aborted as for a failed summarization; every record the run      *)
(* appends has a summary body that is not blank. It is stated of the runs  *)
(* over one file.                                                          *)
(***************************************************************************)
C20_EmptySummaryIsFailure ==
    /\ summary = << >>
       => /\ pc = "aborted"
          /\ log[Len(log)] = <<"no_summary", 1>>
          /\ EventsOf("append") = {}
          /\ processed_count = 0
          /\ output_md = start_md
    /\ output_md /= start_md
       => /\ Strip(summary) /= << >>
          /\ TextOf(output_md)
               = TextOf(start_md) \o record_text(heading_of(entries[1]), summary)

\* the service answered with a text that is empty once cleaned, and the run
\* was aborted
C20_Witness ==
    /\ summary = << >>
    /\ pc = "aborted"
    /\ EventsOf("generate") /= {}

=============================================================================
